---------------------------- MODULE Spec2Model ----------------------------
(***************************************************************************)
(* A model of coat's Button widget: the Button properties value, the       *)
(* retained ButtonObject render object and the slot bookkeeping that the   *)
(* phase contexts (UpdateCtx, EventCtx, LifeCycleCtx, LayoutCtx, PaintCtx) *)
(* read and write, driven through update / event / lifecycle / layout /    *)
(* paint / build.                                                          *)
(*                                                                         *)
(* Lengths are whole pixels.  Transforms are translations kept in HALF     *)
(* pixels, so that the centring offset (size - label_size) / 2.0 of paint  *)
(* is exact.                                                               *)
(***************************************************************************)
EXTENDS Integers, Sequences, FiniteSets, TLC

\* ----------------------------------------------------------------- bounds
\* The label child reports sizes on the grid {0, LabelStep, ...}.
MaxLabelSteps == 2
LabelStep == 12
\* Box constraints have their minima and maxima on the grid {0, BcStep, ...}.
MaxBcSteps == 2
BcStep == 25
\* The label child reports a baseline offset in 0..MaxBaseline.
MaxBaseline == 1
\* The transform a parent hands to paint is a translation by 0..MaxOrigin px.
MaxOrigin == 1
\* An event is delivered to a button over 0..MaxChildren children.
MaxChildren == 2
\* A parent creates at most MaxCreated render objects over its life.
MaxCreated == 3

\* -------------------------------------------------------------- geometry
Max(a, b) == IF a >= b THEN a ELSE b
Min(a, b) == IF a <= b THEN a ELSE b

Size(w, h) == [width |-> w, height |-> h]

LabelLengths == {i * LabelStep : i \in 0..MaxLabelSteps}
LabelSizes == {Size(w, h) : w \in LabelLengths, h \in LabelLengths}

BcLengths == {i * BcStep : i \in 0..MaxBcSteps}
\* The valid box constraints: min <= max componentwise (bc.debug_check).
BoxConstraints ==
    {[min |-> Size(a, b), max |-> Size(c, d)] :
        a \in BcLengths, b \in BcLengths, c \in BcLengths, d \in BcLengths}
BoxConstraintsValid ==
    {bc \in BoxConstraints :
        bc.min.width <= bc.max.width /\ bc.min.height <= bc.max.height}

\* Size::clamp: each component raised to min, then lowered to max.
clamp(size, lo, hi) ==
    Size(Min(Max(size.width, lo.width), hi.width),
         Min(Max(size.height, lo.height), hi.height))

\* BoxConstraints::constrain, shrink and loosen.
constrain(bc, size) == clamp(size, bc.min, bc.max)
shrink(bc, diff) ==
    [min |-> Size(Max(bc.min.width - diff.width, 0),
                  Max(bc.min.height - diff.height, 0)),
     max |-> Size(Max(bc.max.width - diff.width, 0),
                  Max(bc.max.height - diff.height, 0))]
loosen(bc) == [min |-> Size(0, 0), max |-> bc.max]

\* Insets::uniform_xy(8., 2.), x_value() and y_value().
LABEL_INSETS == [x0 |-> 8, y0 |-> 2, x1 |-> 8, y1 |-> 2]
x_value(insets) == insets.x0 + insets.x1
y_value(insets) == insets.y0 + insets.y1

\* ----------------------------------------------------------------- style
\* Option<Box<dyn StyleSheet>>: "None", or the name of the boxed sheet's type.
Sheets == {"None", "Default"}

\* style::Default::enabled.  Colours are percentages, alpha included.
DefaultEnabled ==
    [min_height |-> 24, shadow_offset |-> <<0, 0>>,
     background |-> [rgb |-> 87, alpha |-> 100],
     border_radius |-> 2, border_width |-> 1,
     border_color |-> [rgb |-> 70, alpha |-> 100],
     text_color |-> [rgb |-> 0, alpha |-> 100]]

\* A caller-supplied sheet that implements enabled alone and inherits hovered,
\* pressed and disabled from the trait.
RaisedEnabled ==
    [min_height |-> 30, shadow_offset |-> <<0, 2>>,
     background |-> [rgb |-> 40, alpha |-> 100],
     border_radius |-> 4, border_width |-> 2,
     border_color |-> [rgb |-> 20, alpha |-> 100],
     text_color |-> [rgb |-> 100, alpha |-> 100]]

\* Every sheet a Button can carry: none, the default one, a caller's own.
AllSheets == Sheets \cup {"Raised"}

\* StyleSheet::enabled, dispatched on the sheet's type.
enabled(sheet) == IF sheet = "Raised" THEN RaisedEnabled ELSE DefaultEnabled

\* Color::with_alpha(0.5)
with_alpha_half(color) == [color EXCEPT !.alpha = 50]

\* StyleSheet::hovered, pressed and disabled (the trait's provided methods).
hovered(sheet) ==
    LET base == enabled(sheet)
    IN  [base EXCEPT !.shadow_offset =
            <<base.shadow_offset[1], base.shadow_offset[2] + 1>>]
pressed(sheet) == [enabled(sheet) EXCEPT !.shadow_offset = <<0, 0>>]
disabled(sheet) ==
    LET base == enabled(sheet)
    IN  [base EXCEPT !.shadow_offset = <<0, 0>>,
                     !.background = with_alpha_half(base.background),
                     !.text_color = with_alpha_half(base.text_color)]

\* style::Default::eq: the other sheet is of type Default; a caller's sheet
\* compares types the same way.
sheet_eq(self, other) == other = self

\* ----------------------------------------------------------------- Button
Labels == {"", "OK"}
Button == [label : Labels, disabled : BOOLEAN, style : Sheets]

\* #[derive(Default)]
ButtonDefault == [label |-> "", disabled |-> FALSE, style |-> "None"]

\* #[derive(PartialEq)] on Button: fieldwise; Option compares None with None
\* and Some with Some through PartialEq for Box<dyn StyleSheet>.
style_option_eq(a, b) ==
    IF a = "None" \/ b = "None" THEN a = b ELSE sheet_eq(a, b)
ButtonEq(a, b) ==
    /\ a.label = b.label
    /\ a.disabled = b.disabled
    /\ style_option_eq(a.style, b.style)

\* style that looks at pressed before hovered.
style_pressed_first(self, is_hovered, is_pressed) ==
    LET sheet == IF self.props.style /= "None" THEN self.props.style
                 ELSE "Default"
    IN  IF self.props.disabled THEN disabled(sheet)
        ELSE IF is_pressed THEN pressed(sheet)
        ELSE IF is_hovered THEN hovered(sheet)
        ELSE enabled(sheet)

\* ButtonObject::style
style(self, is_hovered, is_pressed) ==
    LET sheet == IF self.props.style /= "None" THEN self.props.style
                 ELSE "Default"
    IN  IF self.props.disabled THEN disabled(sheet)
        ELSE IF is_hovered /\ is_pressed THEN pressed(sheet)
        ELSE IF is_hovered THEN hovered(sheet)
        ELSE enabled(sheet)

\* ----------------------------------------------------------------- state
VARIABLES
    object,   \* the retained ButtonObject: props, label_size
    node,     \* the slot's bookkeeping, reached through the phase contexts
    call,     \* the last phase call: its operation, inputs and results
    element,  \* the legacy ButtonElement: text, cached text layout
    tree      \* a parent's child slots and the reconciliation pass over them

vars == <<object, node, call, element, tree>>

\* #[derive(Default)] on ButtonObject
ButtonObjectDefault == [props |-> ButtonDefault, label_size |-> Size(0, 0)]

\* The slot of a node: dirty flags, hot/active, baseline offset, the size its
\* last layout returned, and the action waiting for the next declaration.
NodeDefault ==
    [needs_layout |-> TRUE, needs_paint |-> TRUE,
     is_hot |-> FALSE, is_active |-> FALSE,
     baseline_offset |-> 0, size |-> Size(0, 0), action |-> "None"]

\* A phase context over the slot: the slot's fields, the event's handled mark
\* and the drawing backend's current transform.
Ctx(n, transform) ==
    [needs_layout |-> n.needs_layout, needs_paint |-> n.needs_paint,
     is_hot |-> n.is_hot, is_active |-> n.is_active,
     baseline_offset |-> n.baseline_offset, size |-> n.size,
     action |-> n.action, is_handled |-> FALSE, transform |-> transform]

\* What a context leaves in the slot when the phase call returns.
NodeOf(ctx) == [f \in DOMAIN NodeDefault |-> ctx[f]]

Identity == [x |-> 0, y |-> 0]

\* ------------------------------------------------------------ the phases
\* update without the equality gate: layout is requested on every call.
update_ungated(self, ctx, props) ==
    [self |-> [self EXCEPT !.props = props],
     ctx |-> [ctx EXCEPT !.needs_layout = TRUE]]

\* update that stores changed props without requesting layout.
update_silent(self, ctx, props) ==
    [self |-> [self EXCEPT !.props = props], ctx |-> ctx]

\* update that writes the outcome of the comparison into the layout flag.
update_overwrites_request(self, ctx, props) ==
    [self |-> [self EXCEPT !.props = props],
     ctx |-> [ctx EXCEPT !.needs_layout = ~ButtonEq(self.props, props)]]

\* update that drops the cached label size when the props change.
update_forgets_cache(self, ctx, props) ==
    IF ~ButtonEq(self.props, props)
    THEN [self |-> [self EXCEPT !.props = props, !.label_size = Size(0, 0)],
          ctx |-> [ctx EXCEPT !.needs_layout = TRUE]]
    ELSE [self |-> self, ctx |-> ctx]

\* ButtonObject::update
update(self, ctx, props) ==
    IF ~ButtonEq(self.props, props)
    THEN [self |-> [self EXCEPT !.props = props],
          ctx |-> [ctx EXCEPT !.needs_layout = TRUE]]
    ELSE [self |-> self, ctx |-> ctx]

MouseButtons == {"Left", "Right"}
Events ==
    [kind : {"MouseDown", "MouseUp"}, button : MouseButtons]
        \cup {[kind |-> "MouseMove", button |-> "None"]}

MouseDownLeft == [kind |-> "MouseDown", button |-> "Left"]
MouseUpLeft == [kind |-> "MouseUp", button |-> "Left"]

\* event whose pointer-down forgets request_paint.
event_down_no_paint(self, ctx, ev, children) ==
    [self |-> self,
     ctx |-> IF ev.kind = "MouseDown" /\ ev.button = "Left"
             THEN [ctx EXCEPT !.is_active = TRUE]
             ELSE IF ev.kind = "MouseUp" /\ ctx.is_active /\ ev.button = "Left"
             THEN [ctx EXCEPT !.is_active = FALSE,
                              !.is_handled = IF ctx.is_hot THEN TRUE ELSE @,
                              !.needs_paint = TRUE]
             ELSE ctx,
     forwarded |-> [i \in 1..Len(children) |-> [child |-> i, event |-> ev]]]

\* event whose pointer-up marks the event handled only when NOT hot.
event_up_handled_when_cold(self, ctx, ev, children) ==
    [self |-> self,
     ctx |-> IF ev.kind = "MouseDown" /\ ev.button = "Left"
             THEN [ctx EXCEPT !.is_active = TRUE, !.needs_paint = TRUE]
             ELSE IF ev.kind = "MouseUp" /\ ctx.is_active /\ ev.button = "Left"
             THEN [ctx EXCEPT !.is_active = FALSE,
                              !.is_handled = IF ~ctx.is_hot THEN TRUE ELSE @,
                              !.needs_paint = TRUE]
             ELSE ctx,
     forwarded |-> [i \in 1..Len(children) |-> [child |-> i, event |-> ev]]]

\* event whose pointer-up also drops the cached label size.
event_up_resets_label(self, ctx, ev, children) ==
    [self |-> IF ev.kind = "MouseUp" /\ ctx.is_active /\ ev.button = "Left"
              THEN [self EXCEPT !.label_size = Size(0, 0)]
              ELSE self,
     ctx |-> IF ev.kind = "MouseDown" /\ ev.button = "Left"
             THEN [ctx EXCEPT !.is_active = TRUE, !.needs_paint = TRUE]
             ELSE IF ev.kind = "MouseUp" /\ ctx.is_active /\ ev.button = "Left"
             THEN [ctx EXCEPT !.is_active = FALSE,
                              !.is_handled = IF ctx.is_hot THEN TRUE ELSE @,
                              !.needs_paint = TRUE]
             ELSE ctx,
     forwarded |-> [i \in 1..Len(children) |-> [child |-> i, event |-> ev]]]

\* event that forwards to the children only while the event is unhandled.
event_stops_when_handled(self, ctx, ev, children) ==
    LET own ==
            IF ev.kind = "MouseDown" /\ ev.button = "Left"
            THEN [ctx EXCEPT !.is_active = TRUE, !.needs_paint = TRUE]
            ELSE IF ev.kind = "MouseUp" /\ ctx.is_active /\ ev.button = "Left"
            THEN [ctx EXCEPT !.is_active = FALSE,
                             !.is_handled = IF ctx.is_hot THEN TRUE ELSE @,
                             !.needs_paint = TRUE]
            ELSE ctx
    IN  [self |-> self, ctx |-> own,
         forwarded |->
             IF own.is_handled THEN <<>>
             ELSE [i \in 1..Len(children) |->
                      [child |-> i, event |-> ev,
                       seen |-> [is_active |-> own.is_active,
                                 is_handled |-> own.is_handled]]]]

\* event whose pointer-up does not ask whether the button is active.
event_up_ignores_active(self, ctx, ev, children) ==
    [self |-> self,
     ctx |-> IF ev.kind = "MouseDown" /\ ev.button = "Left"
             THEN [ctx EXCEPT !.is_active = TRUE, !.needs_paint = TRUE]
             ELSE IF ev.kind = "MouseUp" /\ ev.button = "Left"
             THEN [ctx EXCEPT !.is_active = FALSE,
                              !.is_handled = IF ctx.is_hot THEN TRUE ELSE @,
                              !.needs_paint = TRUE]
             ELSE ctx,
     forwarded |-> [i \in 1..Len(children) |-> [child |-> i, event |-> ev]]]

\* event that ignores the pointer while the button is disabled.
event_ignores_when_disabled(self, ctx, ev, children) ==
    [self |-> self,
     ctx |-> IF self.props.disabled THEN ctx
             ELSE IF ev.kind = "MouseDown" /\ ev.button = "Left"
             THEN [ctx EXCEPT !.is_active = TRUE, !.needs_paint = TRUE]
             ELSE IF ev.kind = "MouseUp" /\ ctx.is_active /\ ev.button = "Left"
             THEN [ctx EXCEPT !.is_active = FALSE,
                              !.is_handled = IF ctx.is_hot THEN TRUE ELSE @,
                              !.needs_paint = TRUE]
             ELSE ctx,
     forwarded |-> [i \in 1..Len(children) |-> [child |-> i, event |-> ev]]]

\* ButtonObject::event.  forwarded lists, in order, the child.event calls made,
\* each with the active flag and handled mark the child finds in the context.
event(self, ctx, ev, children) ==
    LET own ==
            IF ev.kind = "MouseDown"
            THEN IF ev.button = "Left"
                 THEN [ctx EXCEPT !.is_active = TRUE, !.needs_paint = TRUE]
                 ELSE ctx
            ELSE IF ev.kind = "MouseUp"
            THEN IF ctx.is_active /\ ev.button = "Left"
                 THEN [ctx EXCEPT !.is_active = FALSE,
                                  !.is_handled = IF ctx.is_hot THEN TRUE ELSE @,
                                  !.needs_paint = TRUE]
                 ELSE ctx
            ELSE ctx
    IN  [self |-> self, ctx |-> own,
         forwarded |-> [i \in 1..Len(children) |->
                          [child |-> i, event |-> ev,
                           seen |-> [is_active |-> own.is_active,
                                     is_handled |-> own.is_handled]]]]

LifeCycles == {"HotChanged", "WidgetAdded"}

\* lifecycle that ends the gesture when the hot state changes.
lifecycle_clears_active(self, ctx, ev) ==
    IF ev = "HotChanged"
    THEN [self |-> self,
          ctx |-> [ctx EXCEPT !.needs_paint = TRUE, !.is_active = FALSE]]
    ELSE [self |-> self, ctx |-> ctx]

\* ButtonObject::lifecycle
lifecycle(self, ctx, ev) ==
    IF ev = "HotChanged"
    THEN [self |-> self, ctx |-> [ctx EXCEPT !.needs_paint = TRUE]]
    ELSE [self |-> self, ctx |-> ctx]

\* layout that pads the width by one inset only and skips min_height.
layout_one_inset(self, ctx, bc, children) ==
    [self |-> [self EXCEPT !.label_size = children[1].size],
     ctx |-> [ctx EXCEPT !.baseline_offset =
                 children[1].baseline + LABEL_INSETS.y1],
     label_bc |-> loosen(shrink(bc, Size(x_value(LABEL_INSETS),
                                         y_value(LABEL_INSETS)))),
     size |-> constrain(bc,
                 Size(children[1].size.width + LABEL_INSETS.x0,
                      children[1].size.height + y_value(LABEL_INSETS)))]

\* layout that returns the padded size without bc.constrain.
layout_unconstrained(self, ctx, bc, children) ==
    [self |-> [self EXCEPT !.label_size = children[1].size],
     ctx |-> [ctx EXCEPT !.baseline_offset =
                 children[1].baseline + LABEL_INSETS.y1],
     label_bc |-> loosen(shrink(bc, Size(x_value(LABEL_INSETS),
                                         y_value(LABEL_INSETS)))),
     size |-> Size(children[1].size.width + x_value(LABEL_INSETS),
                   Max(children[1].size.height + y_value(LABEL_INSETS),
                       style(self, ctx.is_hot, ctx.is_active).min_height))]

\* ButtonObject::layout.  children[1] is the label: the size it returns from
\* its own layout under label_bc, and its baseline offset.
layout(self, ctx, bc, children) ==
    LET st == style(self, ctx.is_hot, ctx.is_active)
        padding == Size(x_value(LABEL_INSETS), y_value(LABEL_INSETS))
        label_bc == loosen(shrink(bc, padding))
        label_size == children[1].size
        min_height == st.min_height
        baseline == children[1].baseline
    IN  [self |-> [self EXCEPT !.label_size = label_size],
         ctx |-> [ctx EXCEPT !.baseline_offset = baseline + LABEL_INSETS.y1],
         label_bc |-> label_bc,
         size |-> constrain(bc,
                     Size(label_size.width + padding.width,
                          Max(label_size.height + padding.height, min_height)))]

\* Affine::translate applied to the current transform (half pixels).
translate(t, v) == [x |-> t.x + v.x, y |-> t.y + v.y]

\* PaintCtx::with_save: the transform saved on entry is the transform on
\* every exit of the closure.
with_save(saved, inside) == saved

\* paint that translates and paints the label without with_save.
paint_unsaved(self, ctx, children) ==
    LET at == translate(ctx.transform,
                        [x |-> ctx.size.width - self.label_size.width,
                         y |-> ctx.size.height - self.label_size.height])
    IN  [self |-> self,
         ctx |-> [ctx EXCEPT !.transform = translate(at, children[1].leaves)],
         drawn |-> << [op |-> "stroke"], [op |-> "fill"],
                      [op |-> "child", child |-> 1, transform |-> at,
                       leaves |-> children[1].leaves,
                       exit |-> children[1].exit] >>]

\* ButtonObject::paint.  children[1] is the label: the translation its own
\* paint leaves on the backend, and how its paint call exits.
paint(self, ctx, children) ==
    LET size == ctx.size
        st == style(self, ctx.is_hot, ctx.is_active)
        stroke_width == st.border_width
        rounded_rect ==
            [x0 |-> stroke_width, y0 |-> stroke_width,
             x1 |-> 2 * size.width - stroke_width,
             y1 |-> 2 * size.height - stroke_width,
             radius |-> st.border_radius]
        label_offset == [x |-> size.width - self.label_size.width,
                         y |-> size.height - self.label_size.height]
        at == translate(ctx.transform, label_offset)
        inside == translate(at, children[1].leaves)
    IN  [self |-> self,
         ctx |-> [ctx EXCEPT !.transform = with_save(ctx.transform, inside)],
         drawn |-> << [op |-> "stroke", shape |-> rounded_rect,
                       brush |-> st.border_color, width |-> stroke_width],
                      [op |-> "fill", shape |-> rounded_rect,
                       brush |-> st.background],
                      [op |-> "child", child |-> 1, transform |-> at,
                       leaves |-> children[1].leaves,
                       exit |-> children[1].exit] >>]

\* Cx::render_object: the node found at the call site is updated with the
\* declared props, and the action waiting in its slot is taken.
render_object(self, ctx, props) ==
    LET u == update(self, ctx, props)
    IN  [self |-> u.self, ctx |-> [u.ctx EXCEPT !.action = "None"],
         action |-> u.ctx.action]

\* Button::build
build(self, ctx, props) ==
    LET r == render_object(self, ctx, props)
    IN  [self |-> r.self, ctx |-> r.ctx, result |-> r.action /= "None"]

\* ---------------------------------------------------- legacy ButtonElement
\* Option<PietTextLayout>: no element when None, one when Some.
NoLayout == <<>>

\* #[derive(Default)] on ButtonElement
ButtonElementDefault == [text |-> "", layout |-> NoLayout]

\* ButtonElement::layout: the text layout is built only when none is cached;
\* the size returned is constraints.max.
element_layout(self, constraints) ==
    [self |-> IF self.layout = NoLayout
              THEN [self EXCEPT !.layout =
                       <<[text |-> self.text,
                          max_width |-> constraints.max.width]>>]
              ELSE self,
     size |-> constraints.max]

\* A declaration closure that stores the new text and keeps the cache.
button_keeps_cache(self, text) ==
    IF self.text /= text THEN [self EXCEPT !.text = text] ELSE self

\* button: the closure that Ui::add runs on the retained element.
button(self, text) ==
    IF self.text /= text
    THEN [self EXCEPT !.text = text, !.layout = NoLayout]
    ELSE self

\* ButtonElement::paint: unwrap panics without a cached layout; otherwise the
\* cached layout is what is drawn.
element_paint(self) ==
    IF self.layout = NoLayout
    THEN [panicked |-> TRUE, drawn |-> "None"]
    ELSE [panicked |-> FALSE, drawn |-> self.layout[1].text]

\* -------------------------------------------------------- reconciliation
\* A parent with no child slot yet.  children are the live slots in sibling
\* order, each with its identity key <<call site, occurrence>>, the id of
\* the object created for it, the render object and the slot's bookkeeping.
\* next_id numbers the objects created so far; pruned keeps, for the
\* properties, the slots the last pass destroyed.
TreeDefault == [children |-> <<>>, next_id |-> 1, pruned |-> {}]

\* The call sites of the application's Button::build calls.
Sites == {"a", "b"}

\* A build that reports its own location instead of its caller's.
caller_untracked(site) == "a"

\* Location::caller() under #[track_caller]: the application's call site.
caller(site) == site

\* The identity key of the i-th declaration of a pass: its call site and the
\* number of declarations from that call site so far in the pass.
key_of(sites, i) ==
    <<caller(sites[i]),
      Cardinality({j \in 1..i : caller(sites[j]) = caller(sites[i])})>>

\* The positions of the parent's live slots that carry the key.
find(children, key) == {j \in DOMAIN children : children[j].key = key}

\* RenderObject::create for ButtonObject: the declared props, nothing cached.
create(props) == [ButtonObjectDefault EXCEPT !.props = props]

\* One declaration: the slot found under the key is updated in place, and a
\* key not found gets a new object in a new slot.
declare(t, sites, i, props) ==
    LET key == key_of(sites, i)
        found == find(t.children, key)
        made == Cardinality({j \in 1..(i - 1) :
                               find(t.children, key_of(sites, j)) = {}})
    IN  IF found /= {}
        THEN LET slot == t.children[CHOOSE j \in found : TRUE]
                 r == render_object(slot.object, Ctx(slot.node, Identity),
                                    props)
             IN  [slot EXCEPT !.object = r.self, !.node = NodeOf(r.ctx)]
        ELSE [key |-> key, id |-> t.next_id + made,
              object |-> create(props), node |-> NodeDefault]

\* The end of a pass that leaves the slots it did not visit after the others.
prune_keeps_unvisited(t, visited) ==
    LET keys == {visited[i].key : i \in DOMAIN visited}
        fresh == {i \in DOMAIN visited : find(t.children, visited[i].key) = {}}
    IN  [children |-> visited \o
                      SelectSeq(t.children, LAMBDA s : s.key \notin keys),
         next_id |-> t.next_id + Cardinality(fresh),
         pruned |-> {}]

\* The end of a pass: the visited slots, in declaration order, are the
\* parent's children; the slots not visited are destroyed.
prune(t, visited) ==
    LET keys == {visited[i].key : i \in DOMAIN visited}
        fresh == {i \in DOMAIN visited : find(t.children, visited[i].key) = {}}
    IN  [children |-> visited,
         next_id |-> t.next_id + Cardinality(fresh),
         pruned |-> {t.children[j] : j \in {k \in DOMAIN t.children :
                                              t.children[k].key \notin keys}}]

\* One reconciliation pass over the parent: every declaration, then pruning.
reconcile(t, sites, props) ==
    prune(t, [i \in 1..Len(sites) |-> declare(t, sites, i, props)])

\* --------------------------------------------------------------- actions
\* The label child, as the button's phases see it.
Children == <<"label">>
Baselines == 0..MaxBaseline
Origins == {[x |-> 2 * i, y |-> 2 * i] : i \in 0..MaxOrigin}
Leaves == {Identity, [x |-> 2, y |-> 0]}
Exits == {"return", "unwind"}

\* The label's answer to layout in a running application: the measure of the
\* text it was declared with.
MeasureLabel(label) ==
    [size |-> IF label = "" THEN Size(0, LabelStep)
              ELSE Size(MaxLabelSteps * LabelStep, LabelStep),
     baseline |-> MaxBaseline]

\* The constraints a window hands down in a running application: loose up to
\* the window's size, or tight.
PassConstraints ==
    {[min |-> Size(0, 0),
      max |-> Size(MaxBcSteps * BcStep, MaxBcSteps * BcStep)],
     [min |-> Size(BcStep, BcStep), max |-> Size(BcStep, BcStep)]}

Init ==
    /\ object = ButtonObjectDefault
    /\ node = NodeDefault
    /\ call = [op |-> "create"]
    /\ element = ButtonElementDefault
    /\ tree = TreeDefault

\* The reconciler calls update with the props of this pass.
Update(props) ==
    LET r == update(object, Ctx(node, Identity), props)
    IN  /\ object' = r.self
        /\ node' = NodeOf(r.ctx)
        /\ call' = [op |-> "update", props |-> props,
                    same |-> props = object.props]
        /\ UNCHANGED <<element, tree>>

\* The host delivers one input event to the button over its children.
EventOn(ev, children) ==
    LET r == event(object, Ctx(node, Identity), ev, children)
    IN  /\ object' = r.self
        /\ node' = NodeOf(r.ctx)
        /\ call' = [op |-> "event", event |-> ev,
                    is_handled |-> r.ctx.is_handled,
                    children |-> children, forwarded |-> r.forwarded]
        /\ UNCHANGED <<element, tree>>

\* The host delivers one input event to the button and its label.
Event(ev) == EventOn(ev, Children)

\* The pointer enters or leaves the node's bounds.
SetHot ==
    /\ node' = [node EXCEPT !.is_hot = ~@]
    /\ call' = [op |-> "hot"]
    /\ UNCHANGED <<object, element, tree>>

\* A lifecycle notification; HotChanged follows a change of the hot flag.
Lifecycle(ev) ==
    LET r == lifecycle(object, Ctx(node, Identity), ev)
    IN  /\ ev = "HotChanged" => call.op = "hot"
        /\ object' = r.self
        /\ node' = NodeOf(r.ctx)
        /\ call' = [op |-> "lifecycle", event |-> ev]
        /\ UNCHANGED <<element, tree>>

\* Layout under bc; the label answers with size and baseline.  The size
\* returned becomes the node's size.
Layout(bc, size, baseline) ==
    LET r == layout(object, Ctx(node, Identity), bc,
                    <<[size |-> size, baseline |-> baseline]>>)
    IN  /\ object' = r.self
        /\ node' = [NodeOf(r.ctx) EXCEPT !.size = r.size]
        /\ call' = [op |-> "layout", bc |-> bc, label_bc |-> r.label_bc,
                    label_size |-> size, size |-> r.size]
        /\ UNCHANGED <<element, tree>>

\* Paint with the backend's transform at origin.
Paint(origin, leaves, exit) ==
    LET r == paint(object, Ctx(node, origin),
                   <<[leaves |-> leaves, exit |-> exit]>>)
    IN  /\ object' = r.self
        /\ node' = NodeOf(r.ctx)
        /\ call' = [op |-> "paint", before |-> origin,
                    after |-> r.ctx.transform, drawn |-> r.drawn]
        /\ UNCHANGED <<element, tree>>

\* The application declares the button in a build pass.
Build(props) ==
    LET r == build(object, Ctx(node, Identity), props)
    IN  /\ object' = r.self
        /\ node' = NodeOf(r.ctx)
        /\ call' = [op |-> "build", props |-> props, result |-> r.result]
        /\ UNCHANGED <<element, tree>>

\* The scheduler clears a dirty flag once the corresponding work is done.
Scheduler ==
    /\ \/ /\ call.op = "layout"
          /\ node' = [node EXCEPT !.needs_layout = FALSE]
       \/ /\ call.op = "paint"
          /\ node' = [node EXCEPT !.needs_paint = FALSE]
    /\ call' = [op |-> "scheduler"]
    /\ UNCHANGED <<object, element, tree>>

Next ==
    \/ \E props \in Button : Update(props)
    \/ \E ev \in Events : Event(ev)
    \/ SetHot
    \/ \E ev \in LifeCycles : Lifecycle(ev)
    \/ \E bc \in PassConstraints :
          Layout(bc, MeasureLabel(object.props.label).size,
                 MeasureLabel(object.props.label).baseline)
    \/ \E origin \in Origins, leaves \in Leaves, exit \in Exits :
          Paint(origin, leaves, exit)
    \/ \E props \in Button : Build(props)
    \/ Scheduler

Spec == Init /\ [][Next]_vars

\* ------------------------------------------- layout as a function of inputs
\* The legacy element is laid out under constraints.
ElementLayout(constraints) ==
    LET r == element_layout(element, constraints)
    IN  /\ element' = r.self
        /\ call' = [op |-> "element_layout", constraints |-> constraints,
                    size |-> r.size]
        /\ UNCHANGED <<object, node, tree>>

\* Any button the application can have declared, in any hot/active state,
\* before its first layout.
InitLayout ==
    /\ \E props \in Button :
          object = [ButtonObjectDefault EXCEPT !.props = props]
    /\ \E is_hot \in BOOLEAN, is_active \in BOOLEAN :
          node = [NodeDefault EXCEPT !.is_hot = is_hot, !.is_active = is_active]
    /\ call = [op |-> "create"]
    /\ \E text \in Labels :
          element = [ButtonElementDefault EXCEPT !.text = text]
    /\ tree = TreeDefault

\* The first layout of the button, for every input.
FirstLayout ==
    /\ call.op = "create"
    /\ \E bc \in BoxConstraintsValid, size \in LabelSizes,
          baseline \in Baselines : Layout(bc, size, baseline)

\* The first layout of the legacy element, for every input.
FirstElementLayout ==
    /\ call.op = "create"
    /\ \E constraints \in BoxConstraintsValid : ElementLayout(constraints)

NextLayout == FirstLayout \/ FirstElementLayout

SpecLayout == InitLayout /\ [][NextLayout]_vars

\* ------------------------------------------------- passes over a parent
\* The declaration sequences of a pass: nothing, one button, two buttons
\* from one call site or from two, in either order.
Passes ==
    {<<>>, <<"a">>, <<"b">>, <<"a", "a">>, <<"a", "b">>, <<"b", "a">>}

InitTree ==
    /\ object = ButtonObjectDefault
    /\ node = NodeDefault
    /\ call = [op |-> "create"]
    /\ element = ButtonElementDefault
    /\ tree = TreeDefault

\* A build pass: the application declares its buttons, all with one label.
TreePass(sites, label) ==
    LET props == [ButtonDefault EXCEPT !.label = label]
        t == reconcile(tree, sites, props)
    IN  /\ t.next_id <= MaxCreated + 1
        /\ tree' = t
        /\ call' = [op |-> "pass", sites |-> sites, props |-> props,
                    revived |-> {p \in tree.pruned :
                                   find(t.children, p.key) /= {}}]
        /\ UNCHANGED <<object, node, element>>

\* The layout of the pass: every live slot is laid out under the window's
\* constraints, and the scheduler clears the layout request.
TreeLayout ==
    LET bc == [min |-> Size(0, 0),
               max |-> Size(MaxBcSteps * BcStep, MaxBcSteps * BcStep)]
        laid(slot) ==
            LET r == layout(slot.object, Ctx(slot.node, Identity), bc,
                            <<MeasureLabel(slot.object.props.label)>>)
            IN  [slot EXCEPT !.object = r.self,
                             !.node = [NodeOf(r.ctx) EXCEPT
                                          !.needs_layout = FALSE,
                                          !.size = r.size]]
    IN  /\ tree.children /= <<>>
        /\ tree' = [tree EXCEPT !.children =
                       [i \in DOMAIN tree.children |-> laid(tree.children[i])]]
        /\ call' = [op |-> "tree_layout",
                    laid |-> {tree.children[i].id : i \in DOMAIN tree.children}]
        /\ UNCHANGED <<object, node, element>>

\* The left button goes down over the i-th child.
TreePress(i) ==
    LET slot == tree.children[i]
        r == event(slot.object, Ctx(slot.node, Identity), MouseDownLeft,
                   Children)
    IN  /\ i \in DOMAIN tree.children
        /\ tree' = [tree EXCEPT !.children[i] =
                       [slot EXCEPT !.object = r.self, !.node = NodeOf(r.ctx)]]
        /\ call' = [op |-> "press", child |-> i]
        /\ UNCHANGED <<object, node, element>>

NextTree ==
    \/ \E sites \in Passes, label \in Labels : TreePass(sites, label)
    \/ TreeLayout
    \/ \E i \in DOMAIN tree.children : TreePress(i)

SpecTree == InitTree /\ [][NextTree]_vars

\* ------------------------------------------------ the legacy element's life
\* A freshly created legacy element.
InitLegacy ==
    /\ object = ButtonObjectDefault
    /\ node = NodeDefault
    /\ call = [op |-> "create"]
    /\ element = ButtonElementDefault
    /\ tree = TreeDefault

\* A panic in paint ends the program.
Running == ~(call.op = "element_paint" /\ call.panicked)

\* A pass declares the button with a text.
ButtonDecl(text) ==
    /\ Running
    /\ element' = button(element, text)
    /\ call' = [op |-> "button", text |-> text,
                changed |-> element.text /= text,
                had_layout |-> element.layout /= NoLayout]
    /\ UNCHANGED <<object, node, tree>>

\* A layout pass reaches the element.
LegacyLayout ==
    /\ Running
    /\ \E constraints \in BoxConstraintsValid : ElementLayout(constraints)

\* A paint pass reaches the element.
ElementPaint ==
    LET r == element_paint(element)
    IN  /\ Running
        /\ call' = [op |-> "element_paint", panicked |-> r.panicked,
                    drawn |-> r.drawn]
        /\ UNCHANGED <<object, node, element, tree>>

NextLegacy ==
    \/ \E text \in Labels : ButtonDecl(text)
    \/ LegacyLayout
    \/ ElementPaint

SpecLegacy == InitLegacy /\ [][NextLegacy]_vars

\* -------------------------------------------- style as a function of inputs
\* A button declared with any label, disabled flag and sheet, in any
\* hot/active state.
InitStyle ==
    /\ \E props \in [label : Labels, disabled : BOOLEAN, style : AllSheets] :
          object = [ButtonObjectDefault EXCEPT !.props = props]
    /\ \E is_hot \in BOOLEAN, is_active \in BOOLEAN :
          node = [NodeDefault EXCEPT !.is_hot = is_hot, !.is_active = is_active]
    /\ call = [op |-> "create"]
    /\ element = ButtonElementDefault
    /\ tree = TreeDefault

\* The style the button selects for an interaction state.
Style(is_hovered, is_pressed) ==
    /\ call' = [op |-> "style", hovered |-> is_hovered, pressed |-> is_pressed,
                result |-> style(object, is_hovered, is_pressed)]
    /\ UNCHANGED <<object, node, element, tree>>

FirstStyle ==
    /\ call.op = "create"
    /\ \E is_hovered \in BOOLEAN, is_pressed \in BOOLEAN :
          Style(is_hovered, is_pressed)

NextStyle == FirstStyle

SpecStyle == InitStyle /\ [][NextStyle]_vars

\* -------------------------------------------- event as a function of inputs
\* Any button the application can have declared, in any hot/active state.
InitEvent == InitLayout

\* One event delivered to the button over any number of children.
FirstEvent ==
    /\ call.op = "create"
    /\ \E ev \in Events, n \in 0..MaxChildren :
          EventOn(ev, [i \in 1..n |-> IF i = 1 THEN "label" ELSE "child"])

NextEvent == FirstEvent

SpecEvent == InitEvent /\ [][NextEvent]_vars

\* ------------------------------------------------------------ properties
Within(size, bc) ==
    /\ bc.min.width <= size.width /\ size.width <= bc.max.width
    /\ bc.min.height <= size.height /\ size.height <= bc.max.height

\* C1: an update call whose props equal the retained props, made directly or
\* by declaring the button again, requests neither layout nor paint and leaves
\* props and label_size as they were.
C1_UpdateSamePropsIsNoOp ==
    [][(call'.op \in {"update", "build"} /\ call'.props = object.props)
         => /\ node'.needs_layout = node.needs_layout
            /\ node'.needs_paint = node.needs_paint
            /\ object' = object]_vars

\* An update with the retained props has run on a clean node and no dirty
\* flag is set after it.
C1_Witness ==
    /\ call.op = "update" /\ call.same
    /\ ~node.needs_layout /\ ~node.needs_paint
    /\ object.props.label = "OK"

\* C2: an update call whose props differ from the retained props (in label,
\* disabled flag or style) leaves a layout or paint request pending, and the
\* retained props are the new props.
C2_UpdateChangedPropsRequests ==
    [][(call'.op = "update" /\ call'.props /= object.props)
         => /\ node'.needs_layout \/ node'.needs_paint
            /\ object'.props = call'.props]_vars

\* An update that changed the props has run and its layout request stands.
C2_Witness ==
    /\ call.op = "update" /\ ~call.same
    /\ node.needs_layout
    /\ object.props = call.props /\ object.props.disabled

\* C3: after a left pointer-down is delivered to event, the node is active
\* and a repaint is requested.
C3_PointerDownActivates ==
    (call.op = "event" /\ call.event = MouseDownLeft)
        => node.is_active /\ node.needs_paint

\* A left pointer-down arrived while the pointer was inside the bounds.
C3_Witness ==
    /\ call.op = "event" /\ call.event = MouseDownLeft
    /\ node.is_hot /\ node.is_active /\ node.needs_paint

\* C4: a left pointer-up delivered while the button is active and hot marks
\* the event handled, clears active and requests a repaint.
C4_PointerUpWhileHotHandled ==
    [][(call'.op = "event" /\ call'.event = MouseUpLeft
          /\ node.is_active /\ node.is_hot)
         => call'.is_handled /\ ~node'.is_active /\ node'.needs_paint]_vars

\* A left pointer-up was marked handled and ended the gesture.
C4_Witness ==
    /\ call.op = "event" /\ call.event = MouseUpLeft
    /\ call.is_handled /\ node.is_hot /\ ~node.is_active /\ node.needs_paint

Clamp1(v, lo, hi) == IF v < lo THEN lo ELSE IF v > hi THEN hi ELSE v

\* C5: layout under bc with a label that measures to S returns
\* (S.width + 16, max(S.height + 4, 24)) clamped into bc, and stores S as the
\* object's label_size.
C5_LayoutReturnsPaddedLabelSize ==
    call.op = "layout" =>
        LET S == call.label_size
            w == S.width + 16
            h == IF S.height + 4 >= 24 THEN S.height + 4 ELSE 24
        IN  /\ call.size.width =
                   Clamp1(w, call.bc.min.width, call.bc.max.width)
            /\ call.size.height =
                   Clamp1(h, call.bc.min.height, call.bc.max.height)
            /\ object.label_size = S

\* A layout whose width was clamped to the maximum and whose height is the
\* style's minimum height, the label being shorter.
C5_Witness ==
    /\ call.op = "layout"
    /\ call.label_size.width + 16 > call.bc.max.width
    /\ call.size.width = call.bc.max.width
    /\ call.label_size.height > 0 /\ call.label_size.height + 4 < 24
    /\ call.size.height = 24
    /\ object.label_size = call.label_size

\* C6: under valid box constraints, whatever the label reports and whatever
\* the hot/active/disabled state, the size returned by ButtonObject::layout
\* and by the legacy ButtonElement::layout lies within [min, max].
C6_LayoutWithinConstraints ==
    /\ call.op = "layout" => Within(call.size, call.bc)
    /\ call.op = "element_layout" => Within(call.size, call.constraints)

\* A disabled, hot and active button whose label is larger than the
\* constraints allow has been laid out.
C6_Witness ==
    /\ call.op = "layout"
    /\ node.is_hot /\ node.is_active /\ object.props.disabled
    /\ call.label_size.width + 16 > call.bc.max.width
    /\ call.label_size.height + 4 > call.bc.max.height
    /\ call.bc.min.width > 0
    /\ Within(call.size, call.bc)

\* C7: paint paints the label under the entry transform translated by the
\* centring offset (size - label_size) / 2, and the backend's transform after
\* paint is the transform before it, however the label's paint call exits.
C7_PaintRestoresTransform ==
    call.op = "paint" =>
        /\ call.after = call.before
        /\ call.drawn[3].op = "child"
        /\ call.drawn[3].transform =
               [x |-> call.before.x + (node.size.width - object.label_size.width),
                y |-> call.before.y + (node.size.height - object.label_size.height)]

\* The label was painted off-origin, left a translation behind and its paint
\* call unwound.
C7_Witness ==
    /\ call.op = "paint"
    /\ call.before /= Identity
    /\ call.drawn[3].transform /= call.before
    /\ call.drawn[3].leaves /= Identity
    /\ call.drawn[3].exit = "unwind"
    /\ call.after = call.before

\* C8: update, lifecycle, layout, paint (and build, which updates) leave the
\* hot and active flags as they were; active changes only in an event call and
\* hot only when the pointer crosses the bounds.
C8_FlagsOnlyFromEventPhase ==
    [][/\ call'.op \in {"update", "lifecycle", "layout", "paint", "build"}
          => node'.is_hot = node.is_hot /\ node'.is_active = node.is_active
       /\ node'.is_active /= node.is_active => call'.op = "event"
       /\ node'.is_hot /= node.is_hot => call'.op = "hot"]_vars

\* A HotChanged lifecycle call has run in the middle of a gesture and the
\* button is still active.
C8_Witness ==
    /\ call.op = "lifecycle" /\ call.event = "HotChanged"
    /\ node.is_active /\ ~node.is_hot

\* C9: an event call, whatever the event and the hot/active state, leaves the
\* retained props and the cached label_size as they were.
C9_EventKeepsLabelState ==
    [][call'.op = "event" => object' = object]_vars

\* A click gesture has completed on a laid-out button with a label.
C9_Witness ==
    /\ call.op = "event" /\ call.event = MouseUpLeft /\ call.is_handled
    /\ object.props.label = "OK"
    /\ object.label_size = MeasureLabel("OK").size

\* C10: the build call that follows a completed click gesture (a left
\* pointer-up marked handled) returns true.
C10_BuildReportsClick ==
    [][(call'.op = "build" /\ call.op = "event" /\ call.event = MouseUpLeft
          /\ call.is_handled)
         => call'.result = TRUE]_vars

PhaseCalls == {"update", "event", "lifecycle", "layout", "paint", "build"}

\* C11: no update, event, lifecycle, layout, paint or build call clears a
\* dirty flag that is set; a set flag is cleared only by the scheduler, after
\* the layout (for dirty-for-layout) or the paint (for dirty-for-paint).
C11_DirtyFlagsMonotonic ==
    [][/\ call'.op \in PhaseCalls \cup {"hot"}
          => /\ node.needs_layout => node'.needs_layout
             /\ node.needs_paint => node'.needs_paint
       /\ (node.needs_layout /\ ~node'.needs_layout)
          => call'.op = "scheduler" /\ call.op = "layout"
       /\ (node.needs_paint /\ ~node'.needs_paint)
          => call'.op = "scheduler" /\ call.op = "paint"]_vars

\* A layout request is still standing after an update that changed the props
\* and a later event call, paint having been done and cleared in between.
C11_Witness ==
    /\ call.op = "event" /\ call.event.kind = "MouseMove"
    /\ node.needs_layout /\ ~node.needs_paint
    /\ object.props /= ButtonDefault

\* C15: event forwards the event to every child exactly once, in child order,
\* after its own pointer handling (the child finds the active flag and the
\* handled mark the button has just set), for every event kind and state.
C15_EventForwardedToEveryChild ==
    call.op = "event" =>
        /\ Len(call.forwarded) = Len(call.children)
        /\ \A i \in 1..Len(call.children) :
              /\ call.forwarded[i].child = i
              /\ call.forwarded[i].event = call.event
              /\ call.forwarded[i].seen.is_active = node.is_active
              /\ call.forwarded[i].seen.is_handled = call.is_handled

\* A pointer-up that the button marked handled was still forwarded to both of
\* its children.
C15_Witness ==
    /\ call.op = "event" /\ call.event = MouseUpLeft /\ call.is_handled
    /\ Len(call.children) = 2 /\ Len(call.forwarded) = 2
    /\ call.forwarded[2].child = 2

\* C18: an event is marked handled only on a left pointer-up received while
\* hot and active, and active is set only by a left pointer-down; a left
\* pointer-up while active but not hot clears active and requests paint without
\* marking the event handled; a pointer-up while not active, or with another
\* button, changes neither active nor the paint flag and marks nothing.
C18_HandledOnlyOnUpWhileHotAndActive ==
    [][call'.op = "event" =>
        /\ call'.is_handled
           => call'.event = MouseUpLeft /\ node.is_hot /\ node.is_active
        /\ (~node.is_active /\ node'.is_active) => call'.event = MouseDownLeft
        /\ (call'.event = MouseUpLeft /\ node.is_active /\ ~node.is_hot)
           => ~node'.is_active /\ node'.needs_paint /\ ~call'.is_handled
        /\ (call'.event.kind = "MouseUp"
              /\ (~node.is_active \/ call'.event.button /= "Left"))
           => /\ node'.is_active = node.is_active
              /\ node'.needs_paint = node.needs_paint
              /\ ~call'.is_handled]_vars

\* A left pointer-up arrived outside the bounds and ended the gesture without
\* being marked handled.
C18_Witness ==
    /\ call.op = "event" /\ call.event = MouseUpLeft
    /\ ~node.is_hot /\ ~node.is_active /\ node.needs_paint /\ ~call.is_handled
    /\ call.forwarded[1].seen.is_active = FALSE

\* C19: the pointer handling of event does not read props.disabled: the same
\* event delivered in the same hot/active state to a button that differs only
\* in props.disabled gives the same active flag, handled mark and paint
\* request.
C19_EventIgnoresDisabled ==
    [][call'.op = "event" =>
        LET twin == [object EXCEPT !.props.disabled = ~@]
            r == event(twin, Ctx(node, Identity), call'.event, call'.children)
        IN  /\ r.ctx.is_active = node'.is_active
            /\ r.ctx.is_handled = call'.is_handled
            /\ r.ctx.needs_paint = node'.needs_paint]_vars

\* A disabled button completed a click gesture: the pointer-up was marked
\* handled.
C19_Witness ==
    /\ call.op = "event" /\ call.event = MouseUpLeft
    /\ object.props.disabled /\ call.is_handled /\ ~node.is_active

\* C16: style gives, for every (disabled, hovered, pressed): the sheet's
\* disabled style when disabled; otherwise pressed when hovered and pressed,
\* hovered when hovered only, and enabled when not hovered, pressed or not.
\* The sheet is the props' style object when set, the default sheet otherwise.
C16_StylePrecedence ==
    call.op = "style" =>
        LET sheet == IF object.props.style = "None" THEN "Default"
                     ELSE object.props.style
            d == object.props.disabled
            h == call.hovered
            p == call.pressed
        IN  /\ d => call.result = disabled(sheet)
            /\ (~d /\ h /\ p) => call.result = pressed(sheet)
            /\ (~d /\ h /\ ~p) => call.result = hovered(sheet)
            /\ (~d /\ ~h) => call.result = enabled(sheet)

\* A pressed but not hovered button with a sheet of its own got that sheet's
\* enabled style, which is neither its pressed style nor the default sheet's.
C16_Witness ==
    /\ call.op = "style" /\ object.props.style = "Raised"
    /\ ~object.props.disabled /\ ~call.hovered /\ call.pressed
    /\ call.result = RaisedEnabled
    /\ call.result /= pressed("Raised")
    /\ call.result /= enabled("Default")

\* C17: in the legacy element a cached text layout that is present was built
\* from the current text.  A declaration with a different text stores it and
\* clears the cache, one with the same text changes nothing, layout builds
\* the text layout only when the cache is empty, and a paint that finds the
\* cache draws the current text.
C17_LegacyCacheMatchesText ==
    [][/\ element'.layout /= NoLayout => element'.layout[1].text = element'.text
       /\ call'.op = "button" =>
            /\ element'.text = call'.text
            /\ call'.changed => element'.layout = NoLayout
            /\ ~call'.changed => element' = element
       /\ call'.op = "element_layout" =>
            /\ element'.text = element.text
            /\ element.layout /= NoLayout => element' = element
            /\ element.layout = NoLayout =>
                 element'.layout = <<[text |-> element.text,
                                     max_width |-> call'.constraints.max.width]>>
       /\ call'.op = "element_paint" =>
            /\ element' = element
            /\ call'.panicked <=> element.layout = NoLayout
            /\ ~call'.panicked => call'.drawn = element.text]_vars

\* A declaration changed the text of an element that had a layout cached, and
\* the cache is gone.
C17_Witness ==
    /\ call.op = "button" /\ call.changed /\ call.had_layout
    /\ element.text = call.text
    /\ element.layout = NoLayout

\* The identity key the i-th declaration of a pass stands for.
DeclKey(sites, i) ==
    <<sites[i], Cardinality({j \in 1..i : sites[j] = sites[i]})>>

\* What a slot holds right after its object was created from props.
Fresh(slot, props) ==
    /\ slot.object = [props |-> props, label_size |-> Size(0, 0)]
    /\ slot.node = NodeDefault

\* C12: a node declared at the same call site pass after pass, with the
\* declarations before it unchanged, keeps its object: the pass neither
\* creates nor replaces it, the props of the pass are stored in it, and what
\* it cached (label_size) and its active flag are the ones it had.  Layout
\* and input between passes leave the objects where they are.
C12_IdentityStable ==
    [][/\ call'.op = "pass" =>
            \A i \in DOMAIN tree.children :
                (/\ i <= Len(call'.sites)
                 /\ \A j \in 1..i : tree.children[j].key[1] = call'.sites[j])
                => /\ tree'.children[i].id = tree.children[i].id
                   /\ tree'.children[i].id < tree.next_id
                   /\ tree'.children[i].key = tree.children[i].key
                   /\ tree'.children[i].object.props = call'.props
                   /\ tree'.children[i].object.label_size
                        = tree.children[i].object.label_size
                   /\ tree'.children[i].node.is_active
                        = tree.children[i].node.is_active
       /\ call'.op \in {"tree_layout", "press"} =>
            /\ tree'.next_id = tree.next_id
            /\ DOMAIN tree'.children = DOMAIN tree.children
            /\ \A i \in DOMAIN tree.children :
                  /\ tree'.children[i].id = tree.children[i].id
                  /\ tree'.children[i].key = tree.children[i].key]_vars

\* The first button was declared with a new label in a pass that created its
\* second sibling for the second time: it is still the first object created,
\* still pressed, and still holds the size measured for its old label.
C12_Witness ==
    /\ call.op = "pass" /\ call.props.label = ""
    /\ Len(tree.children) = 2
    /\ tree.children[1].id = 1
    /\ tree.children[1].object.props.label = ""
    /\ tree.children[1].object.label_size = MeasureLabel("OK").size
    /\ tree.children[1].node.is_active
    /\ tree.children[2].id = 3

\* C13: a pass destroys every live slot whose key it does not declare, so
\* the layout that follows reaches none of them, and a key that was absent
\* gets a newly created object with a new id, default bookkeeping and
\* nothing cached, also when the previous pass had destroyed a slot under
\* that key.
C13_PrunedThenFresh ==
    [][/\ call'.op = "pass" =>
            LET sites == call'.sites
                keys == {DeclKey(sites, i) : i \in DOMAIN sites}
            IN  /\ \A j \in DOMAIN tree.children :
                      tree.children[j].key \notin keys
                      => /\ tree.children[j] \in tree'.pruned
                         /\ \A i \in DOMAIN tree'.children :
                               tree'.children[i].id /= tree.children[j].id
                /\ \A i \in DOMAIN tree'.children :
                      (\A j \in DOMAIN tree.children :
                           tree.children[j].key /= tree'.children[i].key)
                      => /\ tree'.children[i].id >= tree.next_id
                         /\ Fresh(tree'.children[i], call'.props)
                /\ \A old \in tree.pruned : \A i \in DOMAIN tree'.children :
                      tree'.children[i].key = old.key
                      => /\ tree'.children[i].id > old.id
                         /\ Fresh(tree'.children[i], call'.props)
       /\ call'.op = "tree_layout" =>
            /\ call'.laid = {tree.children[i].id : i \in DOMAIN tree.children}
            /\ \A old \in tree.pruned : old.id \notin call'.laid]_vars

\* A pressed, measured button labelled OK was left out of one pass and
\* declared again, with another label, in the next: the slot under its key
\* holds a later object, not pressed and with nothing measured.
C13_Witness ==
    /\ call.op = "pass"
    /\ \E old \in call.revived : \E i \in DOMAIN tree.children :
          /\ tree.children[i].key = old.key
          /\ old.node.is_active
          /\ old.object.label_size.width > 0
          /\ old.object.props.label = "OK"
          /\ tree.children[i].id > old.id
          /\ Fresh(tree.children[i], [ButtonDefault EXCEPT !.label = ""])

\* C14: after a pass the children are the declarations of the pass, in
\* declaration order, whatever the order was before; a slot that was live
\* under a declared key is the same object at its new position, with its
\* cached size and its hot/active flags as they were.
C14_OrderIsDeclarationOrder ==
    [][call'.op = "pass" =>
          LET sites == call'.sites
          IN  /\ Len(tree'.children) = Len(sites)
              /\ \A i \in DOMAIN sites :
                    /\ tree'.children[i].key = DeclKey(sites, i)
                    /\ \A j \in DOMAIN tree.children :
                          tree.children[j].key = DeclKey(sites, i)
                          => /\ tree'.children[i].id = tree.children[j].id
                             /\ tree'.children[i].object.label_size
                                  = tree.children[j].object.label_size
                             /\ tree'.children[i].node.is_active
                                  = tree.children[j].node.is_active
                             /\ tree'.children[i].node.is_hot
                                  = tree.children[j].node.is_hot
                             /\ tree'.children[i].node.size
                                  = tree.children[j].node.size]_vars

\* Two buttons were declared in the order a, b and then in the order b, a:
\* the second object created is now the first child, and the first object,
\* pressed before the swap, is the second child and still pressed.
C14_Witness ==
    /\ call.op = "pass" /\ call.sites = <<"b", "a">>
    /\ tree.children[1].id = 2 /\ tree.children[1].key = <<"b", 1>>
    /\ tree.children[2].id = 1 /\ tree.children[2].key = <<"a", 1>>
    /\ tree.children[2].node.is_active
    /\ ~tree.children[1].node.is_active
    /\ tree.children[2].object.label_size.width > 0

=============================================================================
